---- MODULE Spec2Model ----
(***************************************************************************)
(* A model of the uuid-collections crate: the entropy-extracting hasher    *)
(* (src/src/hasher.rs) and the container wrappers that plug it into the    *)
(* generic hash containers (src/src/lib.rs, src/src/like.rs).              *)
(*                                                                         *)
(* Byte slices are sequences of 0..255.  Rust indexes from 0, TLA+ from 1: *)
(* At(bytes, i) is Rust's bytes[i].  A u64 does not fit TLC's integers, so *)
(* it is kept as four 16-bit limbs, most significant first.                *)
(***************************************************************************)
EXTENDS Integers, Sequences, FiniteSets, TLC

VARIABLES hashers, wrote, call, shape, entries, hist, mcall, xcall, archive,
          par, like, prior

hvars == <<hashers, wrote, call>>
cvars == <<shape, entries, hist, mcall>>
avars == <<xcall, archive, par, like, prior>>
vars ==
  <<hashers, wrote, call, shape, entries, hist, mcall, xcall, archive, par,
    like, prior>>

(***************************************************************************)
(* Bounds and input sets                                                   *)
(***************************************************************************)

\* The longest byte slice handed to UuidHasher::write.
MaxLen == 17

\* The most items handed to from_iter, and to extend.
MaxXs == 3
MaxYs == 2

\* The most cells of a collection value handed to the database adapter.
MaxCells == 2

\* The most items of a parallel source.
MaxPar == 3

\* The hasher instances the harness holds at once (pairwise claims need two).
HasherIds == {1, 2}

LimbBase == 2 ^ 16

Byte == 0 .. 255

(***************************************************************************)
(* Integer helpers, computed the way the code computes them                *)
(***************************************************************************)

RECURSIVE BitAnd(_, _)
BitAnd(a, b) ==
  IF a = 0 \/ b = 0 THEN 0
  ELSE (a % 2) * (b % 2) + 2 * BitAnd(a \div 2, b \div 2)

Shr(a, n) == a \div (2 ^ n)

At(bytes, i) == bytes[i + 1]

\* u64::from_be_bytes: out[0] is the most significant byte.
from_le_bytes(out) ==
  [l \in 1 .. 4 |-> out[10 - 2 * l] * 256 + out[9 - 2 * l]]
from_be_bytes(out) ==
  [l \in 1 .. 4 |-> out[2 * l - 1] * 256 + out[2 * l]]

\* The k-th base-256 digit of a u64, k = 0 the most significant.
U64Digit(x, k) ==
  LET limb == x[(k \div 2) + 1]
  IN IF k % 2 = 0 THEN limb \div 256 ELSE limb % 256

U64Zero == <<0, 0, 0, 0>>

U64 == [1 .. 4 -> 0 .. (LimbBase - 1)]

(***************************************************************************)
(* UuidHasher and UuidBuildHasher                                          *)
(***************************************************************************)

\* #[derive(Default)] struct UuidHasher { hash: u64 }
UuidHasher_default == [hash |-> U64Zero]

build_hasher == UuidHasher_default

finish(self) == self.hash

\* A call's result: whether it panicked, the hasher afterwards and the
\* indices of the bytes it inspected.
Panicked(self, seen) == [panic |-> TRUE, hasher |-> self, read |-> seen]
Returned(self, seen) == [panic |-> FALSE, hasher |-> self, read |-> seen]

\* assert_eq!(bytes.len(), 16)
assert_len_atleast(bytes) == Len(bytes) >= 16
assert_len(bytes) == Len(bytes) = 16

\* let version = (bytes[6] & 0b11110000) >> 4
version(bytes) == Shr(BitAnd(At(bytes, 6), 240), 4)

\* assert!(version == 4 || version == 7)
assert_version_range(v) == v >= 4 /\ v <= 7
assert_version(v) == v = 4 \/ v = 7

\* let variant = (bytes[8] & 0b11000000) >> 6
variant(bytes) == Shr(BitAnd(At(bytes, 8), 192), 6)

\* assert_eq!(variant, 2)
assert_variant_bit(v) == v >= 2
assert_variant(v) == v = 2

\* let mut out = [0; 8]; out[0] = bytes[7]; out[1] = bytes[9]; ... out[7] = bytes[15]
out_pasted(bytes) ==
  <<At(bytes, 7), At(bytes, 9), At(bytes, 10), At(bytes, 11),
    At(bytes, 12), At(bytes, 13), At(bytes, 14), At(bytes, 14)>>
out(bytes) ==
  <<At(bytes, 7), At(bytes, 9), At(bytes, 10), At(bytes, 11),
    At(bytes, 12), At(bytes, 13), At(bytes, 14), At(bytes, 15)>>

\* The indices out[] is assembled from.
OutIndices == {7} \cup (9 .. 15)

\* self.hash = hash
store_mixed(self, hash) ==
  [self EXCEPT !.hash = [l \in 1 .. 4 |-> (self.hash[l] + hash[l]) % LimbBase]]
store(self, hash) == [self EXCEPT !.hash = hash]

\* fn write(&mut self, bytes: &[u8])
write_first(self, bytes) ==
  IF ~assert_len(bytes) THEN Panicked(self, {})
  ELSE IF ~assert_version(version(bytes)) THEN Panicked(self, {6})
  ELSE IF ~assert_variant(variant(bytes)) THEN Panicked(self, {6, 8})
  ELSE Returned(IF self.hash = UuidHasher_default.hash
                THEN store(self, from_be_bytes(out(bytes))) ELSE self,
                {6, 8} \cup OutIndices)
write(self, bytes) ==
  IF ~assert_len(bytes) THEN Panicked(self, {})
  ELSE IF ~assert_version(version(bytes)) THEN Panicked(self, {6})
  ELSE IF ~assert_variant(variant(bytes)) THEN Panicked(self, {6, 8})
  ELSE Returned(store(self, from_be_bytes(out(bytes))), {6, 8} \cup OutIndices)

\* not_supported!: every typed write panics.
TypedMethods ==
  {"write_i8", "write_i16", "write_i32", "write_i64", "write_i128", "write_isize",
   "write_u8", "write_u16", "write_u32", "write_u64", "write_u128", "write_usize"}

not_supported_but_u64(method, self, x) ==
  IF method = "write_u64"
  THEN Returned(store(self, <<0, 0, 0, x>>), {})
  ELSE Panicked(self, {})
not_supported(method, self, x) == Panicked(self, {})

(***************************************************************************)
(* Identifiers and the byte slices the harness feeds the hasher            *)
(***************************************************************************)

\* A 16-byte identifier: bytes 0-5 all pre, then b6, b7, b8 and bytes 9-15.
Mk(pre, b6, b7, b8, tail) ==
  <<pre, pre, pre, pre, pre, pre, b6, b7, b8>> \o tail

BaseTail == <<17, 34, 51, 68, 85, 102, 119>>

BaseId == Mk(0, 64, 165, 128, BaseTail)

\* Version 4 or 7 with variant 10: a version-7 identifier with BaseId's random
\* bytes, identifiers one random byte away from BaseId, and the extremes.
SupportedIds ==
  {BaseId, Mk(1, 127, 165, 191, BaseTail), Mk(0, 64, 165, 191, BaseTail),
   Mk(0, 64, 0, 128, BaseTail),
   Mk(255, 79, 255, 191, <<255, 255, 255, 255, 255, 255, 255>>),
   Mk(0, 112, 0, 128, <<0, 0, 0, 0, 0, 0, 0>>)}
  \cup {Mk(0, 64, 165, 128, [BaseTail EXCEPT ![p] = 255]) : p \in 1 .. 7}

\* Every other version, and every other variant under a supported version.
BadVersionIds ==
  {Mk(0, v * 16, 165, 128, BaseTail) : v \in (0 .. 15) \ {4, 7}}
  \cup {Mk(0, 20, 165, 128, BaseTail), Mk(0, 7, 165, 128, BaseTail)}

BadVariantIds ==
  {Mk(0, b6, 165, v * 64 + lo, BaseTail) :
     b6 \in {64, 112}, v \in {0, 1, 3}, lo \in {0, 63}}

\* BaseId cut or padded to n bytes.
Resize(n) ==
  IF n <= 16 THEN SubSeq(BaseId, 1, n)
  ELSE BaseId \o [i \in 1 .. (n - 16) |-> 170]

WrongLengths ==
  {Resize(n) : n \in (0 .. MaxLen) \ {16}}
  \cup {[i \in 1 .. n |-> 255] : n \in {15, MaxLen}}

Slices == SupportedIds \cup BadVersionIds \cup BadVariantIds \cup WrongLengths

TypedArgs == {0, 127}

NoRet == <<>>

(***************************************************************************)
(* The containers: a generic hash container with UuidBuildHasher plugged   *)
(* in.  An entry keeps the hash its key was stored under.                  *)
(***************************************************************************)

\* How many completed insert and remove calls since construction are recorded.
HistLen == 2

Shapes == {"UuidMap", "UuidIndexMap", "UuidSet", "UuidIndexSet"}

\* The wrappers of the generic-key family.
LikeShapes ==
  {"UuidLikeMap", "UuidLikeIndexMap", "UuidLikeSet", "UuidLikeIndexSet"}
Ordered(s) ==
  s \in {"UuidIndexMap", "UuidIndexSet", "UuidLikeIndexMap", "UuidLikeIndexSet"}
IsSet(s) ==
  s \in {"UuidSet", "UuidIndexSet", "UuidLikeSet", "UuidLikeIndexSet"}

\* The generic-key wrapper of the container that the wrapper s of the
\* identifier-keyed family wraps.
LikeOf_hashed(s) == IF IsSet(s) THEN "UuidLikeSet" ELSE "UuidLikeMap"
LikeOf(s) ==
  CASE s = "UuidMap" -> "UuidLikeMap"
    [] s = "UuidIndexMap" -> "UuidLikeIndexMap"
    [] s = "UuidSet" -> "UuidLikeSet"
    [] s = "UuidIndexSet" -> "UuidLikeIndexSet"

\* The identifiers the harness uses as keys: a version-4 one, a version-7 one
\* with the same random bytes, a version-7 one with other random bytes, and a
\* version-1 one. The bulk calls also use identifiers 5 (version 4) and 6
\* (version 7), with random bytes of their own. Identifier 7 is a version-7
\* one with the random bytes of 1 and 2 and a timestamp of its own.
KeyIds == 1 .. 4

Uuids ==
  <<BaseId, Mk(1, 127, 165, 191, BaseTail), Mk(2, 112, 0, 128, BaseTail),
    Mk(0, 16, 165, 128, BaseTail), Mk(3, 75, 17, 160, BaseTail),
    Mk(4, 113, 200, 129, BaseTail), Mk(9, 112, 165, 128, BaseTail)>>

\* A key of a type K: UuidLike wraps an identifier: the key that wraps
\* identifier k, and the identifier a key reduces to.
LikeIds == {Len(Uuids) + k : k \in DOMAIN Uuids}
wrap(k) == Len(Uuids) + k
to_uuid(key) == key - Len(Uuids)

\* The 16 bytes of a key; a UuidLike key has the bytes of its identifier.
as_bytes(k) == IF k \in LikeIds THEN Uuids[to_uuid(k)] ELSE Uuids[k]

\* The values of a map; a set's value is the unit.
Unit == 0
ValuesOf(s) == IF IsSet(s) THEN {Unit} ELSE {1, 2, 3}

None == <<>>
Some(x) == <<x>>

\* Uuid's Hash writes its 16 bytes to a hasher the container builds, and so
\* does the Hash of a key that reduces to an identifier.
make_hash(k) ==
  LET r == write(build_hasher, as_bytes(k))
  IN [panic |-> r.panic, hash |-> finish(r.hasher)]

\* The same, computed once per key.
KeyHashes == [k \in DOMAIN Uuids \cup LikeIds |-> make_hash(k)]
hash_key(k) == KeyHashes[k]

\* The order of two u64s.
U64Le(x, y) ==
  \/ x = y
  \/ \E l \in 1 .. 4 : x[l] < y[l] /\ \A m \in 1 .. (l - 1) : x[m] = y[m]

\* Uuid's Eq compares the 16 bytes, as does the Eq of a UuidLike key.
key_eq_hashed(k1, k2) ==
  \A i \in {7, 9, 10, 11, 12, 13, 14, 15} :
    At(as_bytes(k1), i) = At(as_bytes(k2), i)
key_eq(k1, k2) == as_bytes(k1) = as_bytes(k2)

\* The position of k among the entries stored under hash, 0 when there is none.
find_by_hash(es, hash, k) ==
  LET hits == {i \in 1 .. Len(es) : es[i].hash = hash}
  IN IF hits = {} THEN 0 ELSE CHOOSE i \in hits : \A j \in hits : i <= j
find(es, hash, k) ==
  LET hits == {i \in 1 .. Len(es) : es[i].hash = hash /\ key_eq(es[i].key, k)}
  IN IF hits = {} THEN 0 ELSE CHOOSE i \in hits : \A j \in hits : i <= j

\* A lookup may answer without hashing when the entries alone decide it: the
\* hash containers when empty, the index containers with at most one entry.
CanSkip(s, es) == IF Ordered(s) THEN Len(es) <= 1 ELSE Len(es) = 0

\* The position of k, or a panic of the hasher.
locate_unchecked(s, es, k, skip) ==
  IF skip
  THEN [panic |-> FALSE, idx |-> IF Len(es) = 1 THEN 1 ELSE 0]
  ELSE LET h == hash_key(k)
       IN IF h.panic THEN [panic |-> TRUE, idx |-> 0]
          ELSE [panic |-> FALSE, idx |-> find(es, h.hash, k)]
locate(s, es, k, skip) ==
  IF skip
  THEN [panic |-> FALSE,
        idx |-> IF Len(es) = 1 /\ key_eq(es[1].key, k) THEN 1 ELSE 0]
  ELSE LET h == hash_key(k)
       IN IF h.panic THEN [panic |-> TRUE, idx |-> 0]
          ELSE [panic |-> FALSE, idx |-> find(es, h.hash, k)]

\* HashMap::new / IndexMap::new / HashSet::new / IndexSet::new with_hasher.
new == <<>>

\* Where a new entry goes: the index containers push it at the end, the hash
\* containers keep their entries in the order of the hashes, behind the
\* entries of the same hash.
place_front(s, es, e) == <<e>> \o es
place_sorted(s, es, e) ==
  LET n == Cardinality({i \in 1 .. Len(es) : U64Le(es[i].hash, e.hash)})
  IN SubSeq(es, 1, n) \o <<e>> \o SubSeq(es, n + 1, Len(es))
place(s, es, e) ==
  IF Ordered(s) THEN Append(es, e)
  ELSE LET n == Cardinality({i \in 1 .. Len(es) : U64Le(es[i].hash, e.hash)})
       IN SubSeq(es, 1, n) \o <<e>> \o SubSeq(es, n + 1, Len(es))

\* insert(k, v): hashes k, then overwrites the value in place or adds an entry.
\* A map returns the old value, a set whether the key is new.
insert(s, es, k, v) ==
  LET h == hash_key(k)
      i == find(es, h.hash, k)
  IN IF h.panic THEN [panic |-> TRUE, entries |-> es, ret |-> None]
     ELSE IF i = 0
     THEN [panic |-> FALSE,
           entries |-> place(s, es, [hash |-> h.hash, key |-> k, value |-> v]),
           ret |-> IF IsSet(s) THEN Some(TRUE) ELSE None]
     ELSE [panic |-> FALSE,
           entries |-> [es EXCEPT ![i].value = v],
           ret |-> IF IsSet(s) THEN Some(FALSE) ELSE Some(es[i].value)]

\* get(k) of a map: the value stored for k.
get(s, es, k, skip) ==
  LET l == locate(s, es, k, skip)
  IN [panic |-> l.panic,
      ret |-> IF l.panic \/ l.idx = 0 THEN None ELSE Some(es[l.idx].value)]

\* contains_key(k) of a map, contains(k) of a set.
contains(s, es, k, skip) ==
  LET l == locate(s, es, k, skip)
  IN [panic |-> l.panic, ret |-> Some(~l.panic /\ l.idx # 0)]

\* The entries without the one at position i: the hash containers free the
\* slot, the index containers move their last entry into it (swap_remove).
take_tail(s, es, i) == SubSeq(es, 1, i - 1)
take_shift(s, es, i) == SubSeq(es, 1, i - 1) \o SubSeq(es, i + 1, Len(es))
take(s, es, i) ==
  IF Ordered(s)
  THEN [j \in 1 .. (Len(es) - 1) |-> IF j = i THEN es[Len(es)] ELSE es[j]]
  ELSE [j \in 1 .. (Len(es) - 1) |-> IF j < i THEN es[j] ELSE es[j + 1]]

\* remove(k): a map returns the removed value, a set whether k was present.
remove(s, es, k, skip) ==
  LET l == locate(s, es, k, skip)
  IN IF l.panic THEN [panic |-> TRUE, entries |-> es, ret |-> None]
     ELSE IF l.idx = 0
     THEN [panic |-> FALSE, entries |-> es,
           ret |-> IF IsSet(s) THEN Some(FALSE) ELSE None]
     ELSE [panic |-> FALSE, entries |-> take(s, es, l.idx),
           ret |-> IF IsSet(s) THEN Some(TRUE) ELSE Some(es[l.idx].value)]

\* The derived PartialEq, which is the one of HashMap / IndexMap / HashSet /
\* IndexSet: the same length, and every entry of a is found in b (a map: with
\* an equal value).
eq_ordered(s, a, b) == a = b
eq(s, a, b) ==
  /\ Len(a) = Len(b)
  /\ \A i \in 1 .. Len(a) :
       LET j == locate(s, b, a[i].key, FALSE).idx
       IN j # 0 /\ (IsSet(s) \/ a[i].value = b[j].value)

\* Extend::extend(iter): the items are inserted one after the other; a panic
\* of the hasher stops the call with the earlier items inserted.
RECURSIVE extend_keep_first(_, _, _)
extend_keep_first(s, es, items) ==
  IF items = <<>> THEN [panic |-> FALSE, entries |-> es]
  ELSE LET k == Head(items).key
           h == hash_key(k)
       IN IF h.panic THEN [panic |-> TRUE, entries |-> es]
          ELSE IF find(es, h.hash, k) # 0
          THEN extend_keep_first(s, es, Tail(items))
          ELSE extend_keep_first(s, insert(s, es, k, Head(items).value).entries,
                                 Tail(items))
RECURSIVE extend(_, _, _)
extend(s, es, items) ==
  IF items = <<>> THEN [panic |-> FALSE, entries |-> es]
  ELSE LET r == insert(s, es, Head(items).key, Head(items).value)
       IN IF r.panic THEN [panic |-> TRUE, entries |-> es]
          ELSE extend(s, r.entries, Tail(items))

\* FromIterator::from_iter(iter): a container with the default hasher, extended
\* by the items.
from_iter(s, items) == extend(s, new, items)

\* Serialize::serialize: the archive gets the items that iter() yields; the
\* archived table iterates them in an order of its own, p.
serialize(es, p) ==
  [i \in 1 .. Len(es) |-> [key |-> es[p[i]].key, value |-> es[p[i]].value]]

\* Deserialize::deserialize: a container with_capacity(len), into which every
\* item of the archive is inserted in the archive's order.
RECURSIVE deserialize_by_hash(_, _)
deserialize_by_hash(s, items) ==
  IF items = <<>> THEN [panic |-> FALSE, entries |-> new]
  ELSE LET r == deserialize_by_hash(s, SubSeq(items, 1, Len(items) - 1))
           it == items[Len(items)]
           h == hash_key(it.key)
           i == find_by_hash(r.entries, h.hash, it.key)
       IN IF r.panic \/ h.panic THEN [panic |-> TRUE, entries |-> new]
          ELSE IF i = 0 THEN insert(s, r.entries, it.key, it.value)
          ELSE [panic |-> FALSE, entries |-> [r.entries EXCEPT ![i].value = it.value]]
RECURSIVE deserialize(_, _)
deserialize(s, items) ==
  IF items = <<>> THEN [panic |-> FALSE, entries |-> new]
  ELSE LET r == deserialize(s, SubSeq(items, 1, Len(items) - 1))
           it == items[Len(items)]
           ins == insert(s, r.entries, it.key, it.value)
       IN IF r.panic \/ ins.panic THEN [panic |-> TRUE, entries |-> new]
          ELSE [panic |-> FALSE, entries |-> ins.entries]

\* PartialEq<UuidMap<V>> for ArchivedUuidMap and PartialEq<UuidSet> for
\* ArchivedUuidSet: false when the lengths differ, else whether every archived
\* item is found in the live container (a map: with an equal value).
archived_eq_nolen(s, items, live) ==
  \A i \in 1 .. Len(items) :
    IF IsSet(s) THEN contains(s, live, items[i].key, FALSE).ret = Some(TRUE)
    ELSE get(s, live, items[i].key, FALSE).ret = Some(items[i].value)
archived_eq(s, items, live) ==
  IF Len(items) # Len(live) THEN FALSE
  ELSE \A i \in 1 .. Len(items) :
         IF IsSet(s) THEN contains(s, live, items[i].key, FALSE).ret = Some(TRUE)
         ELSE get(s, live, items[i].key, FALSE).ret = Some(items[i].value)

\* PartialEq<ArchivedUuidMap> for UuidMap and PartialEq<ArchivedUuidSet> for
\* UuidSet: other.eq(self).
live_eq(s, live, items) == archived_eq(s, items, live)

\* The column type of the wrapped container: a map of uuid keys, a set of uuids.
ColumnOf(s) == IF IsSet(s) THEN "set<uuid>" ELSE "map<uuid, int>"

\* HashMap::type_check / HashSet::type_check of the driver.
inner_type_check(s, typ) ==
  IF typ = ColumnOf(s) THEN "none" ELSE "TypeCheckError"

\* DeserializeValue::type_check of the wrapper: the wrapped container's.
type_check(s, typ) == inner_type_check(s, typ)

\* HashMap::deserialize / HashSet::deserialize of the driver, with the hasher
\* of the wrapper: the cells are decoded in the order of the frame and
\* collected into the container; a cell that cannot be decoded ends the call
\* with a DeserializationError, and a decoded key is inserted, so hashed.
RECURSIVE inner_deserialize(_, _)
inner_deserialize(s, cells) ==
  IF cells = <<>> THEN [panic |-> FALSE, error |-> "none", entries |-> new]
  ELSE LET r == inner_deserialize(s, SubSeq(cells, 1, Len(cells) - 1))
           c == cells[Len(cells)]
           ins == insert(s, r.entries, c.key, c.value)
       IN IF r.panic \/ r.error # "none" THEN r
          ELSE IF ~c.ok
          THEN [panic |-> FALSE, error |-> "DeserializationError",
                entries |-> new]
          ELSE IF ins.panic
          THEN [panic |-> TRUE, error |-> "none", entries |-> new]
          ELSE [panic |-> FALSE, error |-> "none", entries |-> ins.entries]

\* DeserializeValue::deserialize of the wrapper: the wrapped container's
\* result, its error passed on by `?`, its container wrapped by Self::from.
deserialize_value(s, cells) == inner_deserialize(s, cells)

\* The workers of the thread pool.
Workers == {1, 2}

\* A parallel source split between the workers: the first c items go to the
\* first worker, the others to the second.
split(items, c) == <<SubSeq(items, 1, c), SubSeq(items, c + 1, Len(items))>>

\* Worker w hands its next item on: it arrives behind the items that arrived
\* before it.
push_overwrite(p, w) ==
  [p EXCEPT !.pending[w] = Tail(p.pending[w]),
            !.arrived = <<Head(p.pending[w])>>]
push(p, w) ==
  [p EXCEPT !.pending[w] = Tail(p.pending[w]),
            !.arrived = Append(p.arrived, Head(p.pending[w]))]

\* Whether every worker has handed on all of its items.
drained(p) == \A w \in Workers : p.pending[w] = <<>>

\* HashMap / IndexMap / HashSet / IndexSet ::from_par_iter: a default container
\* extended by the items that arrived, once all have; then Self::from.
from_par_iter(s, arrived) == extend(s, new, arrived)

\* The completed insert and remove calls since construction, kept while they
\* are at most HistLen; beyond that the record is dropped (more).
NoHist == [calls |-> <<>>, more |-> FALSE]
Record(h, c) ==
  IF ~h.more /\ Len(h.calls) < HistLen
  THEN [h EXCEPT !.calls = Append(h.calls, c)]
  ELSE [calls |-> <<>>, more |-> TRUE]

(***************************************************************************)
(* Initial state                                                           *)
(***************************************************************************)

NoCall ==
  [op |-> "init", h |-> 0, bytes |-> <<>>, targ |-> 0, panic |-> FALSE,
   ret |-> NoRet, read |-> {}, before |-> U64Zero]

NoMCall ==
  [op |-> "new", key |-> 0, value |-> Unit, skip |-> FALSE, panic |-> FALSE,
   ret |-> None, reinsert |-> FALSE, at |-> 0]

\* No bulk call, comparison or adapter call yet.
NoXCall ==
  [op |-> "none", items |-> <<>>, given |-> <<>>, other |-> <<>>,
   panic |-> FALSE, ret |-> FALSE, rev |-> FALSE, typ |-> "", error |-> "none"]

\* The generic-key container run beside the identifier-keyed one: its entries,
\* and the outcome of the last call on each (l: generic-key, u: identifier).
NoLike ==
  [entries |-> <<>>, op |-> "none", key |-> 0, skip |-> FALSE,
   l |-> [panic |-> FALSE, ret |-> <<>>], u |-> [panic |-> FALSE, ret |-> <<>>]]

\* Nothing has been archived yet.
NoArchive == [made |-> FALSE, items |-> <<>>]

\* No parallel iterator is being driven.
NoPar == [op |-> "none", pending |-> <<>>, arrived |-> <<>>]

Init ==
  /\ hashers = [h \in HasherIds |-> build_hasher]
  /\ wrote = [h \in HasherIds |-> <<>>]
  /\ call = NoCall
  /\ shape = "UuidMap"
  /\ entries = new
  /\ hist = NoHist
  /\ mcall = NoMCall
  /\ xcall = NoXCall
  /\ archive = NoArchive
  /\ par = NoPar
  /\ like = NoLike
  /\ prior = [h \in HasherIds |-> <<>>]

(***************************************************************************)
(* The hasher harness: one action per Hasher / BuildHasher method          *)
(***************************************************************************)

\* UuidBuildHasher::build_hasher: slot h now holds a fresh hasher.
BuildHasher(h) ==
  /\ hashers' = [hashers EXCEPT ![h] = build_hasher]
  /\ wrote' = [wrote EXCEPT ![h] = <<>>]
  /\ call' = [op |-> "build_hasher", h |-> h, bytes |-> <<>>, targ |-> 0,
              panic |-> FALSE, ret |-> NoRet, read |-> {},
              before |-> hashers[h].hash]
  /\ UNCHANGED <<cvars, avars>>

\* UuidHasher::write(bytes) on hasher h.
WriteCall(h, bytes) ==
  LET r == write(hashers[h], bytes)
  IN /\ hashers' = [hashers EXCEPT ![h] = r.hasher]
     /\ wrote' = IF r.panic THEN wrote ELSE [wrote EXCEPT ![h] = bytes]
     /\ call' = [op |-> "write", h |-> h, bytes |-> bytes, targ |-> 0,
                 panic |-> r.panic, ret |-> NoRet, read |-> r.read,
                 before |-> hashers[h].hash]
Write(h, bytes) ==
  /\ WriteCall(h, bytes)
  /\ UNCHANGED <<cvars, avars>>

\* The same call, with a note of the bytes that the hasher was written before:
\* prior[h] is the successful write before the last successful one.
WriteAfter(h, bytes) ==
  /\ WriteCall(h, bytes)
  /\ prior' = IF write(hashers[h], bytes).panic THEN prior
              ELSE [prior EXCEPT ![h] = wrote[h]]
  /\ UNCHANGED <<cvars, xcall, archive, par, like>>

\* UuidHasher::write_i8 .. write_usize on hasher h.
WriteTyped(h, method, x) ==
  LET r == not_supported(method, hashers[h], x)
  IN /\ hashers' = [hashers EXCEPT ![h] = r.hasher]
     /\ wrote' = wrote
     /\ call' = [op |-> method, h |-> h, bytes |-> <<>>, targ |-> x,
                 panic |-> r.panic, ret |-> NoRet, read |-> r.read,
                 before |-> hashers[h].hash]
     /\ UNCHANGED <<cvars, avars>>

\* UuidHasher::finish on hasher h.
Finish(h) ==
  /\ call' = [op |-> "finish", h |-> h, bytes |-> <<>>, targ |-> 0,
              panic |-> FALSE, ret |-> finish(hashers[h]), read |-> {},
              before |-> hashers[h].hash]
  /\ UNCHANGED <<hashers, wrote>>
  /\ UNCHANGED <<cvars, avars>>

\* Every call of the Hasher interface, with every slice, on one hasher.
Next ==
  \/ BuildHasher(1)
  \/ \E bytes \in Slices : Write(1, bytes)
  \/ \E method \in TypedMethods, x \in TypedArgs : WriteTyped(1, method, x)
  \/ Finish(1)

Spec == Init /\ [][Next]_vars

\* Two hashers side by side, fed the supported identifiers.
PairNext ==
  \/ \E h \in HasherIds : BuildHasher(h)
  \/ \E h \in HasherIds, bytes \in SupportedIds : Write(h, bytes)
  \/ \E h \in HasherIds : Finish(h)

PairSpec == Init /\ [][PairNext]_vars

\* One hasher instance written again and again, and asked to finish.
ChainSlices == SupportedIds \cup BadVersionIds

ChainNext ==
  \/ \E bytes \in ChainSlices : WriteAfter(1, bytes)
  \/ \E method \in TypedMethods, x \in TypedArgs : WriteTyped(1, method, x)
  \/ Finish(1)

ChainSpec == Init /\ [][ChainNext]_vars

(***************************************************************************)
(* The container harness: one action per container call                    *)
(***************************************************************************)

\* UuidMap::new, UuidIndexMap::new, UuidSet::new, UuidIndexSet::new.
New(s) ==
  /\ shape' = s
  /\ entries' = new
  /\ hist' = NoHist
  /\ mcall' = NoMCall
  /\ UNCHANGED <<hvars, avars>>

\* Whether insert(k, v) puts back what the call c, a remove, has just taken out.
PutsBack(s, c, k, v) ==
  /\ c.op = "remove"
  /\ c.key = k
  /\ ~c.panic
  /\ c.ret = (IF IsSet(s) THEN Some(TRUE) ELSE Some(v))

\* map.insert(k, v) / set.insert(k), through DerefMut; reinsert notes that the
\* call before it was the remove of the same key (and value).
Insert(k, v) ==
  LET r == insert(shape, entries, k, v)
  IN /\ entries' = r.entries
     /\ hist' = IF r.panic THEN hist
                ELSE Record(hist, [op |-> "insert", key |-> k, value |-> v])
     /\ mcall' = [op |-> "insert", key |-> k, value |-> v, skip |-> FALSE,
                  panic |-> r.panic, ret |-> r.ret,
                  reinsert |-> ~r.panic /\ PutsBack(shape, mcall, k, v),
                  at |-> 0]
     /\ UNCHANGED <<shape, hvars, avars>>

\* map.get(&k), through Deref.
Get(k, skip) ==
  LET r == get(shape, entries, k, skip)
  IN /\ ~IsSet(shape)
     /\ mcall' = [op |-> "get", key |-> k, value |-> Unit, skip |-> skip,
                  panic |-> r.panic, ret |-> r.ret, reinsert |-> FALSE,
                  at |-> 0]
     /\ UNCHANGED <<shape, entries, hist, hvars, avars>>

\* map.contains_key(&k) / set.contains(&k), through Deref.
Contains(k, skip) ==
  LET r == contains(shape, entries, k, skip)
  IN /\ mcall' = [op |-> "contains", key |-> k, value |-> Unit, skip |-> skip,
                  panic |-> r.panic, ret |-> r.ret, reinsert |-> FALSE,
                  at |-> 0]
     /\ UNCHANGED <<shape, entries, hist, hvars, avars>>

\* map.remove(&k) / set.remove(&k), through DerefMut; at notes the position
\* the key was found at.
Remove(k, skip) ==
  LET r == remove(shape, entries, k, skip)
  IN /\ entries' = r.entries
     /\ hist' = IF r.panic THEN hist
                ELSE Record(hist, [op |-> "remove", key |-> k, value |-> Unit])
     /\ mcall' = [op |-> "remove", key |-> k, value |-> Unit, skip |-> skip,
                  panic |-> r.panic, ret |-> r.ret, reinsert |-> FALSE,
                  at |-> locate(shape, entries, k, skip).idx]
     /\ UNCHANGED <<shape, hvars, avars>>

\* Whether the container takes the shortcut is its own choice.
Skips == IF CanSkip(shape, entries) THEN BOOLEAN ELSE {FALSE}

MapNext ==
  \/ \E s \in Shapes : New(s)
  \/ \E k \in KeyIds, v \in ValuesOf(shape) : Insert(k, v)
  \/ \E k \in KeyIds, skip \in Skips : Get(k, skip)
  \/ \E k \in KeyIds, skip \in Skips : Contains(k, skip)
  \/ \E k \in KeyIds, skip \in Skips : Remove(k, skip)

MapSpec == Init /\ [][MapNext]_vars

(***************************************************************************)
(* Properties of the hasher                                                *)
(***************************************************************************)

\* The fields of a slice as the identifier layout gives them.
VersionField(b) == At(b, 6) \div 16
VariantField(b) == At(b, 8) \div 64
PassesFormat(b) ==
  Len(b) = 16 /\ VersionField(b) \in {4, 7} /\ VariantField(b) = 2

\* The bytes of the identifier in the order they make up the hash.
RandomOrder == <<7, 9, 10, 11, 12, 13, 14, 15>>

\* C1: a 16-byte input that passes the format checks is written without a
\* panic, and finish() then returns the big-endian 64-bit integer of bytes
\* 7, 9, 10, 11, 12, 13, 14, 15: its k-th base-256 digit is the k-th of them.
C1_FinishIsBigEndian ==
  /\ (call.op = "write" /\ PassesFormat(call.bytes)) =>
       (~call.panic /\ wrote[call.h] = call.bytes)
  /\ (call.op = "finish" /\ wrote[call.h] # <<>>) =>
       /\ PassesFormat(wrote[call.h])
       /\ \A k \in 0 .. 7 :
            U64Digit(call.ret, k) = At(wrote[call.h], RandomOrder[k + 1])

\* finish() returned 0xA511223344556677 for BaseId.
C1_Witness ==
  /\ call.op = "finish"
  /\ wrote[call.h] = BaseId
  /\ call.ret = <<42257, 8755, 17493, 26231>>

\* C2: a 16-byte write whose version is not 4 or 7 panics and leaves the
\* hasher's hash as it was; version 4 or 7 with variant 10 never panics.
C2_VersionChecked ==
  (call.op = "write" /\ Len(call.bytes) = 16) =>
    /\ VersionField(call.bytes) \notin {4, 7} =>
         (call.panic /\ hashers[call.h].hash = call.before)
    /\ (VersionField(call.bytes) \in {4, 7} /\ VariantField(call.bytes) = 2) =>
         ~call.panic

\* A version-1 identifier panicked on a hasher that already held a hash.
C2_Witness ==
  /\ call.op = "write"
  /\ Len(call.bytes) = 16
  /\ VersionField(call.bytes) = 1
  /\ call.panic
  /\ call.before # U64Zero

\* Two 16-byte slices that differ at most in the low six bits of byte 8.
SameButLowSix(a, b) ==
  /\ Len(a) = 16
  /\ Len(b) = 16
  /\ \A i \in (0 .. 15) \ {8} : At(a, i) = At(b, i)
  /\ At(a, 8) \div 64 = At(b, 8) \div 64

\* C3: a 16-byte write whose variant is not binary 10 panics, also under
\* version 4 or 7, and changing only the low six bits of byte 8 never changes
\* whether a write is accepted.
C3_VariantChecked ==
  (call.op = "write" /\ Len(call.bytes) = 16) =>
    /\ VariantField(call.bytes) # 2 =>
         (call.panic /\ hashers[call.h].hash = call.before)
    /\ \A b \in Slices :
         SameButLowSix(b, call.bytes) =>
           (write(hashers[call.h], b).panic <=> call.panic)

\* A version-4 identifier with variant 11 and all low bits set panicked.
C3_Witness ==
  /\ call.op = "write"
  /\ Len(call.bytes) = 16
  /\ VersionField(call.bytes) = 4
  /\ At(call.bytes, 8) = 255
  /\ call.panic

\* C4: a write of a slice that is not exactly 16 bytes long panics before any
\* byte is inspected, whatever the bytes are, and leaves the hash as it was.
C4_LengthChecked ==
  (call.op = "write" /\ Len(call.bytes) # 16) =>
    /\ call.panic
    /\ call.read = {}
    /\ hashers[call.h].hash = call.before

\* A 17-byte slice that starts with a supported identifier panicked.
C4_Witness ==
  /\ call.op = "write"
  /\ Len(call.bytes) = 17
  /\ SubSeq(call.bytes, 1, 16) = BaseId
  /\ call.panic
  /\ call.read = {}

\* C5: every typed-primitive write panics, for every argument and in every
\* hasher state, and leaves the hash as it was: of the write methods only the
\* byte-slice write ever completes.
C5_TypedWritesPanic ==
  /\ call.op \in TypedMethods =>
       (call.panic /\ hashers[call.h].hash = call.before)
  /\ (call.op \in TypedMethods \cup {"write"} /\ ~call.panic) =>
       call.op = "write"

\* write_u64 panicked on a hasher that already held a hash.
C5_Witness ==
  /\ call.op = "write_u64"
  /\ call.targ = 127
  /\ call.panic
  /\ call.before # U64Zero

\* C6: two hashers that were last written the same 16 bytes finish with the
\* same value, whatever either hashed before.
C6_Deterministic ==
  \A h1, h2 \in HasherIds :
    (wrote[h1] # <<>> /\ wrote[h1] = wrote[h2]) =>
      finish(hashers[h1]) = finish(hashers[h2])

\* Both hashers hold BaseId, and the one written last held another hash before.
C6_Witness ==
  /\ wrote[1] = BaseId
  /\ wrote[2] = BaseId
  /\ call.op = "write"
  /\ call.before # U64Zero
  /\ call.before # hashers[call.h].hash

\* C7: two supported identifiers get the same hash only if they agree on
\* byte 7 and bytes 9 to 15; differing in any of those gives different hashes.
C7_CollideOnlyOnRandomBytes ==
  \A h1, h2 \in HasherIds :
    (wrote[h1] # <<>> /\ wrote[h2] # <<>>) =>
      ((finish(hashers[h1]) = finish(hashers[h2])) <=>
         (\A i \in OutIndices : At(wrote[h1], i) = At(wrote[h2], i)))

\* Two distinct identifiers (BaseId and its version-7 or low-bits twin) share a hash.
C7_Witness ==
  /\ wrote[1] # <<>>
  /\ wrote[2] # <<>>
  /\ wrote[1] # wrote[2]
  /\ finish(hashers[1]) = finish(hashers[2])

\* C23: a hasher holds the hash of its most recent successful write alone,
\* whatever it was written before, and finish returns that hash and leaves the
\* hasher as it was, so that a finish after a finish returns the same value.
C23_Step ==
  /\ \A h \in HasherIds :
       wrote[h] # <<>> =>
         finish(hashers[h]) = finish(write(build_hasher, wrote[h]).hasher)
  /\ call'.op = "finish" =>
       /\ ~call'.panic
       /\ hashers' = hashers
       /\ wrote' = wrote
       /\ call'.ret = finish(hashers'[call'.h])
       /\ wrote[call'.h] # <<>> =>
            call'.ret = from_be_bytes(out(wrote[call'.h]))
       /\ (call.op = "finish" /\ call.h = call'.h) => call'.ret = call.ret

C23_FinishIsTheLastWrite == [][C23_Step]_vars

\* finish returned the hash of the identifier written last, to a hasher that
\* another identifier, of another hash, was written to before.
C23_Witness ==
  /\ call.op = "finish"
  /\ wrote[call.h] # <<>>
  /\ prior[call.h] # <<>>
  /\ from_be_bytes(out(prior[call.h])) # from_be_bytes(out(wrote[call.h]))
  /\ call.ret = from_be_bytes(out(wrote[call.h]))
  /\ call.ret # U64Zero

(***************************************************************************)
(* Properties of the containers                                            *)
(***************************************************************************)

Supported(k) == PassesFormat(as_bytes(k))

\* Whether an entry's key equals k, and the value stored for it.
Present(es, k) == \E i \in 1 .. Len(es) : as_bytes(es[i].key) = as_bytes(k)

\* The items (key and value) of the entries, in iteration order.
Items(es) == [i \in 1 .. Len(es) |-> [key |-> es[i].key, value |-> es[i].value]]

\* Every order in which the elements of a sequence can be listed.
Orders(seq) ==
  {[i \in 1 .. Len(seq) |-> seq[f[i]]] : f \in Permutations(1 .. Len(seq))}

\* The keys in iteration order.
Keys(es) == [i \in 1 .. Len(es) |-> es[i].key]

\* The entries but the one of key k, in their order.
Without(es, k) == SelectSeq(es, LAMBDA e : ~key_eq(e.key, k))

\* The containers that a remove of k, returning v, can have left as es.
Befores(s, es, k, v) ==
  LET e == [hash |-> hash_key(k).hash, key |-> k, value |-> v]
      with(p) == SubSeq(es, 1, p - 1) \o <<e>> \o SubSeq(es, p, Len(es))
  IN {b \in {with(p) : p \in 1 .. (Len(es) + 1)} :
        /\ remove(s, b, k, FALSE).entries = es
        /\ Ordered(s) \/ \A i \in 1 .. (Len(b) - 1) : U64Le(b[i].hash, b[i + 1].hash)}

\* What a lookup of k answers: the stored value, or absence.
Lookup(s, es, k) == [g |-> get(s, es, k, FALSE), c |-> contains(s, es, k, FALSE)]

\* The container was built by exactly insert(a, ..) then insert(b, ..).
InsertedThen(a, b) ==
  /\ ~hist.more
  /\ Len(hist.calls) = 2
  /\ hist.calls[1].op = "insert" /\ hist.calls[1].key = a
  /\ hist.calls[2].op = "insert" /\ hist.calls[2].key = b

\* C8: after inserting a and then b, two distinct supported identifiers, into
\* an empty UuidMap or UuidSet, a lookup of a gives a's value, a lookup of b
\* gives b's value and a lookup of any other supported identifier gives absence.
C8_NoCrossContamination ==
  \A a, b \in KeyIds :
    (/\ shape \in {"UuidMap", "UuidSet"}
     /\ a # b /\ Supported(a) /\ Supported(b)
     /\ InsertedThen(a, b)
     /\ mcall.op \in {"get", "contains"}
     /\ Supported(mcall.key)) =>
      /\ ~mcall.panic
      /\ mcall.op = "get" =>
           mcall.ret = (IF mcall.key = a THEN Some(hist.calls[1].value)
                        ELSE IF mcall.key = b THEN Some(hist.calls[2].value)
                        ELSE None)
      /\ mcall.op = "contains" => mcall.ret = Some(mcall.key \in {a, b})

\* Keys 1 and 2 (same hash) were inserted with values 1 and 2; get(1) gave 1.
C8_Witness ==
  /\ shape = "UuidMap"
  /\ InsertedThen(1, 2)
  /\ hist.calls[1].value = 1
  /\ hist.calls[2].value = 2
  /\ mcall.op = "get"
  /\ mcall.key = 1
  /\ mcall.ret = Some(1)

\* C9: every container call with an identifier whose version is neither 4 nor
\* 7 panics, in every container state, and no such identifier is ever stored.
C9_UnsupportedAlwaysPanics ==
  /\ (/\ mcall.op \in {"insert", "get", "contains", "remove"}
      /\ VersionField(as_bytes(mcall.key)) \notin {4, 7}) => mcall.panic
  /\ \A i \in 1 .. Len(entries) : Supported(entries[i].key)

\* C10: a lookup (get, contains) of a supported identifier never panics and
\* leaves the entries and their order as they were, and gives None / false
\* when the identifier is not present; a remove of a supported identifier that
\* is not present does the same.
C10_Step ==
  /\ (mcall'.op \in {"get", "contains"} /\ Supported(mcall'.key)) =>
       /\ ~mcall'.panic
       /\ entries' = entries
       /\ shape' = shape
       /\ ~Present(entries, mcall'.key) =>
            mcall'.ret = (IF mcall'.op = "get" THEN None ELSE Some(FALSE))
  /\ (/\ mcall'.op = "remove"
      /\ Supported(mcall'.key)
      /\ ~Present(entries, mcall'.key)) =>
       /\ ~mcall'.panic
       /\ entries' = entries
       /\ shape' = shape
       /\ mcall'.ret = (IF IsSet(shape) THEN Some(FALSE) ELSE None)

C10_MissesAreCleanAndFrameless == [][C10_Step]_vars

\* A UuidIndexMap holding keys 1 and 3 was asked to remove key 2, which has
\* key 1's hash, and answered None.
C10_Witness ==
  /\ shape = "UuidIndexMap"
  /\ Len(entries) = 2
  /\ entries[1].key = 1
  /\ entries[2].key = 3
  /\ mcall.op = "remove"
  /\ mcall.key = 2
  /\ ~mcall.panic
  /\ mcall.ret = None

\* C11: a remove of a present key does not panic and returns what was stored;
\* afterwards the key is absent, every other key answers get / contains as it
\* did before the call, and the container equals (both ways round) the one
\* built from the remaining entries inserted in any order.
C11_Step ==
  (mcall'.op = "remove" /\ Present(entries, mcall'.key)) =>
    LET k == mcall'.key
        old == get(shape, entries, k, FALSE).ret
    IN /\ ~mcall'.panic
       /\ shape' = shape
       /\ mcall'.ret = (IF IsSet(shape) THEN Some(TRUE) ELSE old)
       /\ ~Present(entries', k)
       /\ Lookup(shape, entries', k).g.ret = None
       /\ Lookup(shape, entries', k).c.ret = Some(FALSE)
       /\ \A j \in KeyIds \ {k} :
            Supported(j) =>
              Lookup(shape, entries', j) = Lookup(shape, entries, j)
       /\ \A items \in Orders(Items(Without(entries, k))) :
            LET built == from_iter(shape, items)
            IN /\ ~built.panic
               /\ eq(shape, entries', built.entries)
               /\ eq(shape, built.entries, entries')

C11_RemoveLeavesTheOthers == [][C11_Step]_vars

\* A UuidMap that held keys 1, 2, 3 with the values 1, 2, 3 was asked to
\* remove key 2 (which has key 1's hash) and returned 2; it now answers 1 for
\* key 1, absence for key 2 and 3 for key 3.
C11_Witness ==
  /\ shape = "UuidMap"
  /\ mcall.op = "remove"
  /\ mcall.key = 2
  /\ mcall.ret = Some(2)
  /\ Len(entries) = 2
  /\ get(shape, entries, 1, FALSE).ret = Some(1)
  /\ get(shape, entries, 2, FALSE).ret = None
  /\ get(shape, entries, 3, FALSE).ret = Some(3)

\* C12: in UuidIndexMap and UuidIndexSet an insert of a key that is not
\* present adds it behind all entries, which stay as and where they are; an
\* insert of a present key leaves every key at its position and changes the
\* value of that key only.
C12_Step ==
  (mcall'.op = "insert" /\ ~mcall'.panic /\ Ordered(shape)) =>
    LET k == mcall'.key
        v == mcall'.value
        n == Len(entries)
    IN /\ shape' = shape
       /\ IF ~Present(entries, k)
          THEN /\ Len(entries') = n + 1
               /\ \A i \in 1 .. n : entries'[i] = entries[i]
               /\ key_eq(entries'[n + 1].key, k)
               /\ entries'[n + 1].value = v
               /\ mcall'.ret = (IF IsSet(shape) THEN Some(TRUE) ELSE None)
          ELSE /\ Len(entries') = n
               /\ \A i \in 1 .. n :
                    /\ entries'[i].key = entries[i].key
                    /\ entries'[i].value =
                         (IF key_eq(entries[i].key, k) THEN v
                          ELSE entries[i].value)

C12_InsertAppendsOrOverwritesInPlace == [][C12_Step]_vars

\* A UuidIndexMap iterating key 1, key 3, key 2 was asked to insert key 1 with
\* the value 3 and returned the old value 1: key 1 is still first, now with 3.
C12_Witness ==
  /\ shape = "UuidIndexMap"
  /\ mcall.op = "insert"
  /\ mcall.key = 1
  /\ mcall.value = 3
  /\ mcall.ret = Some(1)
  /\ Len(entries) = 3
  /\ entries[1].key = 1 /\ entries[1].value = 3
  /\ entries[2].key = 3
  /\ entries[3].key = 2

\* C13 as it stands: in UuidIndexMap and UuidIndexSet the keys iterate in the
\* order of their last fresh insertion, whatever was inserted and removed: an
\* insert of a new key puts it last, an insert of a present key moves nothing,
\* and a remove takes the key out and leaves the others in their order.
C13_OrderStep ==
  (mcall'.op \in {"insert", "remove"} /\ ~mcall'.panic /\ Ordered(shape)) =>
    LET k == mcall'.key
    IN Keys(entries') =
         (IF mcall'.op = "remove" THEN Keys(Without(entries, k))
          ELSE IF Present(entries, k) THEN Keys(entries)
          ELSE Append(Keys(entries), k))

C13_SwapStep ==
  (mcall'.op \in {"insert", "remove"} /\ ~mcall'.panic /\ Ordered(shape)) =>
    LET k == mcall'.key
        n == Len(entries)
        i == mcall'.at
    IN IF mcall'.op = "insert"
       THEN Keys(entries') =
              (IF Present(entries, k) THEN Keys(entries)
               ELSE Append(Keys(entries), k))
       ELSE IF ~Present(entries, k) THEN entries' = entries
       ELSE /\ i \in 1 .. n
            /\ key_eq(entries[i].key, k)
            /\ Len(entries') = n - 1
            /\ \A j \in 1 .. (n - 1) :
                 entries'[j] = (IF j = i THEN entries[n] ELSE entries[j])
            /\ (Keys(entries') = Keys(Without(entries, k))) <=> (i >= n - 1)

C15_Step ==
  (mcall'.op = "insert" /\ mcall'.reinsert) =>
    LET k == mcall'.key
        v == mcall'.value
        n == Len(entries)
    IN /\ mcall.op = "remove" /\ mcall.key = k /\ mcall.at # 0
       /\ ~Present(entries, k)
       /\ Befores(shape, entries, k, v) # {}
       /\ IF Ordered(shape)
          THEN /\ Keys(entries') = Append(Keys(entries), k)
               /\ entries'[n + 1].value = v
               /\ mcall.at <= n => ~key_eq(entries'[mcall.at].key, k)
          ELSE \A b \in Befores(shape, entries, k, v) :
                 /\ eq(shape, entries', b)
                 /\ eq(shape, b, entries')
                 /\ \A j \in KeyIds :
                      Supported(j) =>
                        Lookup(shape, entries', j) = Lookup(shape, b, j)

C15_WitnessUnordered ==
  /\ shape = "UuidMap"
  /\ mcall.op = "insert"
  /\ mcall.reinsert
  /\ mcall.key = 2
  /\ Len(entries) = 3

(***************************************************************************)
(* Bulk construction and comparison                                        *)
(***************************************************************************)

\* No container has been constructed or called yet.
Fresh == mcall = NoMCall /\ xcall = NoXCall /\ entries = new

\* A container obtained from from_iter or extend is at hand.
Built == xcall.op \in {"from_iter", "extend", "eq"} /\ ~xcall.panic

\* C::from_iter(items) for the container type s; a panic of the hasher leaves
\* no container.
FromIter(s, items) ==
  LET r == from_iter(s, items)
  IN /\ Fresh
     /\ shape' = s
     /\ entries' = IF r.panic THEN new ELSE r.entries
     /\ xcall' = [NoXCall EXCEPT !.op = "from_iter", !.items = items,
                                 !.given = items, !.panic = r.panic]
     /\ UNCHANGED <<hist, mcall, hvars, archive, par, like, prior>>

\* a == b and b == a, for the container at hand as a and a container b of the
\* same type.
Eq(b) ==
  /\ Built
  /\ xcall' = [NoXCall EXCEPT !.op = "eq", !.given = xcall.given, !.other = b,
                              !.ret = eq(shape, entries, b),
                              !.rev = eq(shape, b, entries)]
  /\ UNCHANGED <<cvars, hvars, archive, par, like, prior>>

\* The item lists of the comparisons: the supported keys 1, 2, 3, each at most
\* once, in every order, with the values 1 and 2 (a set: the unit).
EqValues(s) == IF IsSet(s) THEN {Unit} ELSE {1, 2}
EqItems(s) == [key : {k \in KeyIds : Supported(k)}, value : EqValues(s)]
EqLists ==
  [s \in Shapes |->
     {l \in UNION {[1 .. n -> EqItems(s)] :
                     n \in 0 .. Cardinality({k \in KeyIds : Supported(k)})} :
        \A i, j \in 1 .. Len(l) : i # j => l[i].key # l[j].key}]

\* The containers made from them.
EqContainers == [s \in Shapes |-> {from_iter(s, l).entries : l \in EqLists[s]}]

EqNext ==
  \/ Fresh /\ \E s \in Shapes : \E items \in EqLists[s] : FromIter(s, items)
  \/ Built /\ \E b \in EqContainers[shape] : Eq(b)

EqSpec == Init /\ [][EqNext]_vars

\* The keys with their values, whatever the order.
Content(es) == {<<es[i].key, es[i].value>> : i \in 1 .. Len(es)}

\* C14: a == b holds exactly when a and b hold the same keys with (a map) the
\* same value for each, in whatever order either of them iterates, and b == a
\* says the same.
C14_EqualIffSameContent ==
  xcall.op = "eq" =>
    /\ xcall.ret <=> (Content(entries) = Content(xcall.other))
    /\ xcall.rev = xcall.ret

\* A UuidIndexMap iterating keys 1, 2, 3 was compared with one iterating keys
\* 3, 2, 1 with the same values, and they were equal.
C14_Witness ==
  /\ shape = "UuidIndexMap"
  /\ xcall.op = "eq"
  /\ Keys(entries) = <<1, 2, 3>>
  /\ Keys(xcall.other) = <<3, 2, 1>>
  /\ Content(entries) = Content(xcall.other)
  /\ xcall.ret

\* A UuidMap was compared with one of the same keys and another value for one
\* of them, and they were not equal.
C14_WitnessUnequal ==
  /\ shape = "UuidMap"
  /\ xcall.op = "eq"
  /\ Len(entries) = 3
  /\ Keys(entries) = Keys(xcall.other)
  /\ Content(entries) # Content(xcall.other)
  /\ ~xcall.ret

(***************************************************************************)
(* from_iter followed by extend                                            *)
(***************************************************************************)

\* container.extend(items), once, on a container that from_iter returned.
Extend(items) ==
  LET r == extend(shape, entries, items)
  IN /\ xcall.op = "from_iter"
     /\ ~xcall.panic
     /\ entries' = r.entries
     /\ xcall' = [NoXCall EXCEPT !.op = "extend", !.items = items,
                                 !.given = xcall.given \o items,
                                 !.panic = r.panic]
     /\ UNCHANGED <<shape, hist, mcall, hvars, archive, par, like, prior>>

\* The items of a list of keys: a map's values number the items, from + 1 on.
Numbered(s, keys, from) ==
  [i \in 1 .. Len(keys) |->
     [key |-> keys[i], value |-> IF IsSet(s) THEN Unit ELSE from + i]]

\* The keys handed to from_iter (the version-1 key among them), and to extend
\* (key 1 again, the version-1 key, and two further keys).
XsKeys == UNION {[1 .. n -> KeyIds] : n \in 0 .. MaxXs}
YsKeys == UNION {[1 .. n -> {1, 4, 5, 6}] : n \in 0 .. MaxYs}

BulkNext ==
  \/ Fresh /\ \E s \in Shapes, keys \in XsKeys :
                FromIter(s, Numbered(s, keys, 0))
  \/ Built /\ \E keys \in YsKeys :
                Extend(Numbered(shape, keys, Len(xcall.given)))

BulkSpec == Init /\ [][BulkNext]_vars

\* The container after inserting the first n of the items one at a time, in
\* their order, into an empty one.
RECURSIVE InsertEach(_, _, _)
InsertEach(s, items, n) ==
  IF n = 0 THEN new
  ELSE insert(s, InsertEach(s, items, n - 1), items[n].key,
              items[n].value).entries

\* Whether no key is given twice, and the place of the last item of a key.
DistinctKeys(items) ==
  \A i, j \in 1 .. Len(items) : i # j => items[i].key # items[j].key
IsLast(items, i) == \A j \in (i + 1) .. Len(items) : items[j].key # items[i].key

\* The items before the first one whose key is not a supported identifier.
Accepted(items) ==
  LET bad == {i \in 1 .. Len(items) : ~Supported(items[i].key)}
  IN IF bad = {} THEN items
     ELSE SubSeq(items, 1, (CHOOSE i \in bad : \A j \in bad : i <= j) - 1)

\* C16: the container from_iter(xs) returns, and the same after extend(ys),
\* equals the one got by inserting the items of xs and then of ys one at a
\* time into an empty container, and iterates alike in the ordered types; with
\* no key given twice it has as many entries as items were given, and a key
\* given several times has the value given last. A panic of extend leaves the
\* items before the offending one inserted.
C16_BulkIsSequential ==
  LET g == xcall.given
      one == InsertEach(shape, g, Len(g))
  IN /\ (xcall.op \in {"from_iter", "extend"} /\ ~xcall.panic) =>
          /\ \A i \in 1 .. Len(g) : Supported(g[i].key)
          /\ eq(shape, entries, one) /\ eq(shape, one, entries)
          /\ Ordered(shape) => Keys(entries) = Keys(one)
          /\ DistinctKeys(g) => Len(entries) = Len(g)
          /\ \A i \in 1 .. Len(g) :
               IsLast(g, i) =>
                 Lookup(shape, entries, g[i].key).g.ret = Some(g[i].value)
     /\ (xcall.op \in {"from_iter", "extend"} /\ xcall.panic) =>
          /\ \E i \in 1 .. Len(g) : ~Supported(g[i].key)
          /\ entries = (IF xcall.op = "from_iter" THEN new
                        ELSE InsertEach(shape, g, Len(Accepted(g))))

\* A UuidMap made by from_iter of keys 1, 2, 3 and extended by keys 5, 6
\* holds five entries.
C16_Witness ==
  /\ shape = "UuidMap"
  /\ xcall.op = "extend"
  /\ ~xcall.panic
  /\ Len(xcall.items) = 2
  /\ Keys(xcall.given) = <<1, 2, 3, 5, 6>>
  /\ Len(entries) = 5

\* A UuidIndexMap made by from_iter of keys 3, 1, 3 (values 1, 2, 3) and
\* extended by key 1 (value 4) iterates key 3, then key 1, with the values 3
\* and 4.
C16_WitnessRepeated ==
  /\ shape = "UuidIndexMap"
  /\ xcall.op = "extend"
  /\ Keys(xcall.given) = <<3, 1, 3, 1>>
  /\ Keys(entries) = <<3, 1>>
  /\ entries[1].value = 3
  /\ entries[2].value = 4

(***************************************************************************)
(* The archival adapter                                                    *)
(***************************************************************************)

\* The container types that have an archived form.
Archivable == {"UuidMap", "UuidSet"}

\* rkyv serialization of the container at hand; p is the order in which the
\* archived table iterates.
Serialize(p) ==
  /\ xcall.op = "from_iter"
  /\ ~xcall.panic
  /\ shape \in Archivable
  /\ archive' = [made |-> TRUE, items |-> serialize(entries, p)]
  /\ xcall' = [NoXCall EXCEPT !.op = "serialize", !.given = xcall.given]
  /\ UNCHANGED <<cvars, hvars, par, like, prior>>

\* rkyv deserialization of the archive; the returned container is noted.
Deserialize ==
  LET r == deserialize(shape, archive.items)
  IN /\ archive.made
     /\ xcall' = [NoXCall EXCEPT !.op = "deserialize", !.given = xcall.given,
                                 !.other = r.entries, !.panic = r.panic]
     /\ UNCHANGED <<cvars, hvars, archive, par, like, prior>>

\* archived == live and live == archived, for the archive at hand and a live
\* container of the type it was made from.
ArchivedEq(live) ==
  /\ archive.made
  /\ xcall' = [NoXCall EXCEPT !.op = "archived_eq", !.given = xcall.given,
                              !.other = live,
                              !.ret = archived_eq(shape, archive.items, live),
                              !.rev = live_eq(shape, live, archive.items)]
  /\ UNCHANGED <<cvars, hvars, archive, par, like, prior>>

ArchiveNext ==
  \/ Fresh /\ \E s \in Archivable : \E items \in EqLists[s] :
                FromIter(s, items)
  \/ Built /\ \E p \in Permutations(1 .. Len(entries)) : Serialize(p)
  \/ Deserialize
  \/ archive.made /\ \E live \in EqContainers[shape] : ArchivedEq(live)

ArchiveSpec == Init /\ [][ArchiveNext]_vars

\* C17: the container that deserialize returns for the archive of a container
\* has the length of that container, equals it both ways round, and answers
\* every lookup as it does, in whatever order the archive iterates.
C17_RoundTrip ==
  xcall.op = "deserialize" =>
    /\ ~xcall.panic
    /\ Content(archive.items) = Content(entries)
    /\ Len(xcall.other) = Len(entries)
    /\ eq(shape, xcall.other, entries)
    /\ eq(shape, entries, xcall.other)
    /\ Content(xcall.other) = Content(entries)
    /\ \A k \in KeyIds :
         Supported(k) =>
           Lookup(shape, xcall.other, k) = Lookup(shape, entries, k)

\* A UuidMap of keys 1, 2, 3 (keys 1 and 2 of one hash) was archived, the
\* archive iterates in another order than the map, and was deserialized.
C17_Witness ==
  /\ shape = "UuidMap"
  /\ xcall.op = "deserialize"
  /\ Len(entries) = 3
  /\ Keys(archive.items) # Keys(entries)
  /\ Len(xcall.other) = 3

\* C18: archived == live holds exactly when the archive and the live
\* container have the same length and every archived key is in the live one
\* (a map: with an equal value), which is when both hold the same keys and
\* values, in whatever order either iterates; live == archived answers the same.
C18_ArchivedEqLive ==
  xcall.op = "archived_eq" =>
    LET a == archive.items
        b == xcall.other
    IN /\ xcall.ret <=>
            /\ Len(a) = Len(b)
            /\ \A i \in 1 .. Len(a) :
                 \E j \in 1 .. Len(b) :
                   /\ key_eq(a[i].key, b[j].key)
                   /\ a[i].value = b[j].value
       /\ xcall.ret <=> (Content(a) = Content(b))
       /\ xcall.rev = xcall.ret

\* The archive of a UuidMap of keys 1, 2, 3, iterating 3, 2, 1, was compared
\* with a live map of those keys and values and was equal to it.
C18_Witness ==
  /\ shape = "UuidMap"
  /\ xcall.op = "archived_eq"
  /\ Keys(archive.items) = <<3, 2, 1>>
  /\ Len(xcall.other) = 3
  /\ xcall.ret
  /\ xcall.rev

\* The archive of a UuidSet of keys 1, 3 was compared with a live set of keys
\* 1, 2, 3 and was not equal to it.
C18_WitnessLonger ==
  /\ shape = "UuidSet"
  /\ xcall.op = "archived_eq"
  /\ Content(archive.items) = {<<1, Unit>>, <<3, Unit>>}
  /\ Len(xcall.other) = 3
  /\ ~xcall.ret

(***************************************************************************)
(* The database adapter                                                    *)
(***************************************************************************)

\* The container types the adapter decodes, and the column types a query may
\* declare.
Decodable == {"UuidMap", "UuidSet"}
ColumnTypes == {"map<uuid, int>", "set<uuid>", "list<uuid>", "int"}

\* The driver asks C::type_check(typ) for the column of a query result.
TypeCheck(s, typ) ==
  /\ Fresh
  /\ shape' = s
  /\ xcall' = [NoXCall EXCEPT !.op = "type_check", !.typ = typ,
                              !.error = type_check(s, typ)]
  /\ UNCHANGED <<entries, hist, mcall, hvars, archive, par, like, prior>>

\* The driver, after a type check that passed, asks C::deserialize(typ, v) for
\* a value of the column.
DeserializeValue(cells) ==
  LET r == deserialize_value(shape, cells)
  IN /\ xcall.op = "type_check"
     /\ xcall.error = "none"
     /\ entries' = r.entries
     /\ xcall' = [NoXCall EXCEPT !.op = "deserialize_value",
                                 !.typ = xcall.typ, !.items = cells,
                                 !.panic = r.panic, !.error = r.error]
     /\ UNCHANGED <<shape, hist, mcall, hvars, archive, par, like, prior>>

\* The values of a column: up to MaxCells cells, each with a key of any
\* version, decodable or not.
Cells(s, keys, oks) ==
  [i \in 1 .. Len(keys) |->
     [key |-> keys[i], value |-> IF IsSet(s) THEN Unit ELSE i, ok |-> oks[i]]]
Frames(s) ==
  UNION {{Cells(s, keys, oks) : keys \in [1 .. n -> KeyIds],
                                oks \in [1 .. n -> BOOLEAN]} :
           n \in 0 .. MaxCells}

ScyllaNext ==
  \/ Fresh /\ \E s \in Decodable, typ \in ColumnTypes : TypeCheck(s, typ)
  \/ xcall.op = "type_check" /\ \E cells \in Frames(shape) :
                                  DeserializeValue(cells)

ScyllaSpec == Init /\ [][ScyllaNext]_vars

\* C19: the type check passes for the column type of the wrapped container
\* only and fails with a TypeCheckError otherwise; a decode never panics:
\* it either fails with a DeserializationError and gives no container, or
\* gives the container of exactly the decoded cells.
C19_DecodeErrorsAreTyped ==
  /\ xcall.op = "type_check" =>
       /\ ~xcall.panic
       /\ xcall.error = (IF xcall.typ = ColumnOf(shape) THEN "none"
                         ELSE "TypeCheckError")
       /\ entries = new
  /\ xcall.op = "deserialize_value" =>
       /\ xcall.typ = ColumnOf(shape)
       /\ ~xcall.panic
       /\ xcall.error \in {"none", "DeserializationError"}
       /\ xcall.error # "none" => entries = new
       /\ xcall.error = "none" =>
            Content(entries) =
              {<<xcall.items[i].key, xcall.items[i].value>> :
                 i \in {j \in 1 .. Len(xcall.items) : IsLast(xcall.items, j)}}

(***************************************************************************)
(* The parallel adapter                                                    *)
(***************************************************************************)

\* C::from_par_iter(source) is called: the source is split between the
\* workers; the caller has no container yet.
FromParIter(s, items, c) ==
  /\ Fresh
  /\ par = NoPar
  /\ shape' = s
  /\ par' = [op |-> "from_par_iter", pending |-> split(items, c),
             arrived |-> <<>>]
  /\ xcall' = [NoXCall EXCEPT !.op = "from_par_iter", !.given = items]
  /\ UNCHANGED <<entries, hist, mcall, hvars, archive, like, prior>>

\* A worker hands on its next item, of the source of from_par_iter or of the
\* container that into_par_iter takes apart.
Work(w) ==
  /\ par.op \in {"from_par_iter", "into_par_iter"}
  /\ par.pending[w] # <<>>
  /\ par' = push(par, w)
  /\ UNCHANGED <<cvars, hvars, xcall, archive, like, prior>>

\* from_par_iter returns: all items have arrived and are in the container,
\* which the caller now has (ret); a panic of the hasher leaves none.
Merge ==
  LET r == from_par_iter(shape, par.arrived)
  IN /\ par.op = "from_par_iter"
     /\ drained(par)
     /\ entries' = IF r.panic THEN new ELSE r.entries
     /\ xcall' = [xcall EXCEPT !.ret = TRUE, !.panic = r.panic]
     /\ par' = [par EXCEPT !.op = "merged"]
     /\ UNCHANGED <<shape, hist, mcall, hvars, archive, like, prior>>

\* container.into_par_iter(): the container is given up, and its entries are
\* split between the workers.
IntoParIter(c) ==
  /\ xcall.op = "from_par_iter"
  /\ xcall.ret
  /\ ~xcall.panic
  /\ par' = [op |-> "into_par_iter", pending |-> split(Items(entries), c),
             arrived |-> <<>>]
  /\ xcall' = [NoXCall EXCEPT !.op = "into_par_iter",
                              !.given = Items(entries)]
  /\ entries' = new
  /\ UNCHANGED <<shape, hist, mcall, hvars, archive, like, prior>>

\* The parallel sources: up to MaxPar items, their keys of any version and
\* possibly repeated.
ParKeys == UNION {[1 .. n -> KeyIds] : n \in 0 .. MaxPar}

ParNext ==
  \/ Fresh /\ \E s \in Shapes, keys \in ParKeys :
                \E c \in 0 .. Len(keys) :
                  FromParIter(s, Numbered(s, keys, 0), c)
  \/ \E w \in Workers : Work(w)
  \/ Merge
  \/ xcall.ret /\ \E c \in 0 .. Len(entries) : IntoParIter(c)

ParSpec == Init /\ [][ParNext]_vars

\* C20: while from_par_iter runs the caller has no container; the container
\* it returns for a source of distinct keys equals, both ways round, the one
\* from_iter makes of the source, whatever the workers' split and the order
\* in which their items arrived; and the items into_par_iter hands on are
\* entries of the container, none twice, and all of them once the workers
\* are done.
C20_ParallelBuildIsSequential ==
  /\ (xcall.op = "from_par_iter" /\ ~xcall.ret) =>
       /\ entries = new
       /\ Len(par.arrived) + Len(par.pending[1]) + Len(par.pending[2]) =
            Len(xcall.given)
  /\ (xcall.op = "from_par_iter" /\ xcall.ret /\ ~xcall.panic
        /\ DistinctKeys(xcall.given)) =>
       LET seq == from_iter(shape, xcall.given).entries
       IN /\ Len(entries) = Len(xcall.given)
          /\ eq(shape, entries, seq)
          /\ eq(shape, seq, entries)
          /\ Content(entries) = Content(xcall.given)
  /\ xcall.op = "into_par_iter" =>
       /\ entries = new
       /\ DistinctKeys(par.arrived)
       /\ Content(par.arrived) \subseteq Content(xcall.given)
       /\ drained(par) =>
            /\ Len(par.arrived) = Len(xcall.given)
            /\ Content(par.arrived) = Content(xcall.given)

\* A UuidMap was built by from_par_iter from keys 1, 2, 3, which arrived in
\* the order 3, 1, 2, and holds the three entries.
C20_Witness ==
  /\ shape = "UuidMap"
  /\ xcall.op = "from_par_iter"
  /\ xcall.ret
  /\ Keys(xcall.given) = <<1, 2, 3>>
  /\ Keys(par.arrived) = <<3, 1, 2>>
  /\ Len(entries) = 3

\* A UuidIndexSet of keys 1, 2, 3 was taken apart by into_par_iter, and the
\* workers have handed on all three keys, key 3 first.
C20_WitnessInto ==
  /\ shape = "UuidIndexSet"
  /\ xcall.op = "into_par_iter"
  /\ Len(xcall.given) = 3
  /\ drained(par)
  /\ Len(par.arrived) = 3
  /\ par.arrived[1].key = 3

(***************************************************************************)
(* The generic-key family beside the identifier-keyed one                  *)
(***************************************************************************)

\* The items with every key wrapped in the UuidLike key type.
Wrapped(items) ==
  [i \in 1 .. Len(items) |->
     [key |-> wrap(items[i].key), value |-> items[i].value]]

\* The outcome of a call, as the caller sees it.
Outcome(r) == [panic |-> r.panic, ret |-> r.ret]

\* UuidMap::new() and UuidLikeMap::new() (and the other three pairs).
LikeNew(s) ==
  /\ shape' = s
  /\ entries' = new
  /\ like' = [NoLike EXCEPT !.op = "new"]
  /\ UNCHANGED <<hist, mcall, hvars, xcall, archive, par, prior>>

\* insert(k, v) on the one, insert(K, v) with K wrapping k on the other.
LikeInsert(k, v) ==
  LET u == insert(shape, entries, k, v)
      l == insert(LikeOf(shape), like.entries, wrap(k), v)
  IN /\ entries' = u.entries
     /\ like' = [entries |-> l.entries, op |-> "insert", key |-> k,
                 skip |-> FALSE, l |-> Outcome(l), u |-> Outcome(u)]
     /\ UNCHANGED <<shape, hist, mcall, hvars, xcall, archive, par, prior>>

\* get(&k) and get(&K) of the two maps.
LikeGet(k, skip) ==
  LET u == get(shape, entries, k, skip)
      l == get(LikeOf(shape), like.entries, wrap(k), skip)
  IN /\ ~IsSet(shape)
     /\ like' = [like EXCEPT !.op = "get", !.key = k, !.skip = skip,
                             !.l = Outcome(l), !.u = Outcome(u)]
     /\ UNCHANGED <<cvars, hvars, xcall, archive, par, prior>>

\* contains_key / contains of the two containers.
LikeContains(k, skip) ==
  LET u == contains(shape, entries, k, skip)
      l == contains(LikeOf(shape), like.entries, wrap(k), skip)
  IN /\ like' = [like EXCEPT !.op = "contains", !.key = k, !.skip = skip,
                             !.l = Outcome(l), !.u = Outcome(u)]
     /\ UNCHANGED <<cvars, hvars, xcall, archive, par, prior>>

\* remove(&k) and remove(&K).
LikeRemove(k, skip) ==
  LET u == remove(shape, entries, k, skip)
      l == remove(LikeOf(shape), like.entries, wrap(k), skip)
  IN /\ entries' = u.entries
     /\ like' = [entries |-> l.entries, op |-> "remove", key |-> k,
                 skip |-> skip, l |-> Outcome(l), u |-> Outcome(u)]
     /\ UNCHANGED <<shape, hist, mcall, hvars, xcall, archive, par, prior>>

\* extend(items) on the one, extend of the wrapped items on the other.
LikeExtend(keys) ==
  LET items == Numbered(shape, keys, 0)
      u == extend(shape, entries, items)
      l == extend(LikeOf(shape), like.entries, Wrapped(items))
  IN /\ entries' = u.entries
     /\ like' = [entries |-> l.entries, op |-> "extend", key |-> 0,
                 skip |-> FALSE,
                 l |-> [panic |-> l.panic, ret |-> None],
                 u |-> [panic |-> u.panic, ret |-> None]]
     /\ UNCHANGED <<shape, hist, mcall, hvars, xcall, archive, par, prior>>

\* a == b, with b collected from the items on the one side and from the
\* wrapped items on the other; a panic of from_iter leaves nothing to compare.
LikeEq(keys) ==
  LET items == Numbered(shape, keys, 0)
      ub == from_iter(shape, items)
      lb == from_iter(LikeOf(shape), Wrapped(items))
      u == IF ub.panic THEN None ELSE Some(eq(shape, entries, ub.entries))
      l == IF lb.panic THEN None
           ELSE Some(eq(LikeOf(shape), like.entries, lb.entries))
  IN /\ like' = [like EXCEPT !.op = "eq", !.key = 0, !.skip = FALSE,
                             !.l = [panic |-> lb.panic, ret |-> l],
                             !.u = [panic |-> ub.panic, ret |-> u]]
     /\ UNCHANGED <<cvars, hvars, xcall, archive, par, prior>>

\* The key lists handed to extend and collected for the comparison: over the
\* two keys of one hash and the key that is neither version 4 nor version 7.
LikeLists == UNION {[1 .. n -> {1, 2, 4}] : n \in 0 .. MaxYs}

LikeNext ==
  \/ \E s \in Shapes : LikeNew(s)
  \/ \E k \in KeyIds, v \in ValuesOf(shape) : LikeInsert(k, v)
  \/ \E k \in KeyIds, skip \in Skips : LikeGet(k, skip)
  \/ \E k \in KeyIds, skip \in Skips : LikeContains(k, skip)
  \/ \E k \in KeyIds, skip \in Skips : LikeRemove(k, skip)
  \/ \E keys \in LikeLists : LikeExtend(keys)
  \/ \E keys \in LikeLists : LikeEq(keys)

LikeSpec == Init /\ [][LikeNext]_vars

\* The generic-key entries les hold, position by position, the keys that
\* reduce to the keys of es, under the same hashes and with the same values.
Corresponds(es, les) ==
  /\ Len(les) = Len(es)
  /\ \A i \in 1 .. Len(es) :
       /\ les[i].key \in LikeIds
       /\ to_uuid(les[i].key) = es[i].key
       /\ les[i].hash = es[i].hash
       /\ les[i].value = es[i].value

C21_WitnessPanic ==
  /\ like.op = "insert"
  /\ like.l.panic
  /\ like.u.panic
  /\ ~Supported(wrap(like.key))
  /\ Len(like.entries) = 2

(***************************************************************************)
(* Identifiers of one hash in one container                                *)
(***************************************************************************)

\* The identifiers with the random bytes of BaseId: a version-4 one and two
\* version-7 ones of different timestamps.
TwinIds == {1, 2, 7}

TwinNext ==
  \/ \E s \in Shapes : New(s)
  \/ \E k \in TwinIds, v \in ValuesOf(shape) : Insert(k, v)
  \/ \E k \in TwinIds, skip \in Skips : Get(k, skip)
  \/ \E k \in TwinIds, skip \in Skips : Contains(k, skip)
  \/ \E k \in TwinIds, skip \in Skips : Remove(k, skip)

TwinSpec == Init /\ [][TwinNext]_vars

\* Two distinct supported identifiers that the hasher gives one hash.
Twins(a, b) ==
  /\ a # b
  /\ as_bytes(a) # as_bytes(b)
  /\ Supported(a) /\ Supported(b)
  /\ ~hash_key(a).panic /\ ~hash_key(b).panic
  /\ hash_key(a).hash = hash_key(b).hash

\* C22: two distinct supported identifiers a and b of one hash, inserted into a
\* new map or set, are two entries; a lookup of either gives its own value, and
\* a remove of either returns its own value and leaves the other, with its
\* value, as the only entry.
C22_Step ==
  \A a, b \in TwinIds :
    (Twins(a, b) /\ InsertedThen(a, b)) =>
      LET own(k) == IF k = a THEN hist.calls[1].value ELSE hist.calls[2].value
          other(k) == IF k = a THEN b ELSE a
      IN /\ Len(entries) = 2
         /\ {entries[1].key, entries[2].key} = {a, b}
         /\ entries[1].hash = entries[2].hash
         /\ \A i \in 1 .. 2 : entries[i].value = own(entries[i].key)
         /\ \A k \in {a, b} :
              /\ (mcall'.op = "get" /\ mcall'.key = k) =>
                   /\ ~mcall'.panic
                   /\ mcall'.ret = Some(own(k))
                   /\ entries' = entries
              /\ (mcall'.op = "contains" /\ mcall'.key = k) =>
                   /\ ~mcall'.panic
                   /\ mcall'.ret = Some(TRUE)
                   /\ entries' = entries
              /\ (mcall'.op = "remove" /\ mcall'.key = k) =>
                   /\ ~mcall'.panic
                   /\ mcall'.ret =
                        (IF IsSet(shape) THEN Some(TRUE) ELSE Some(own(k)))
                   /\ Len(entries') = 1
                   /\ entries'[1].key = other(k)
                   /\ entries'[1].value = own(other(k))
                   /\ contains(shape, entries', other(k), FALSE).ret = Some(TRUE)
                   /\ contains(shape, entries', k, FALSE).ret = Some(FALSE)

C22_CollisionsNeverMerge == [][C22_Step]_vars

\* A UuidMap held the two version-7 identifiers 2 and 7, of one hash, with the
\* values 1 and 2; remove(7) returned 2 and identifier 2 is left with value 1.
C22_Witness ==
  /\ shape = "UuidMap"
  /\ hist.more
  /\ mcall.op = "remove"
  /\ mcall.key = 7
  /\ ~mcall.panic
  /\ mcall.ret = Some(2)
  /\ Twins(2, 7)
  /\ Len(entries) = 1
  /\ entries[1].key = 2
  /\ entries[1].value = 1

\* A UuidIndexSet got the version-4 identifier 1 and then the version-7
\* identifier 7, of one hash, and answers that it contains 1.
C22_WitnessLookup ==
  /\ shape = "UuidIndexSet"
  /\ Twins(1, 7)
  /\ InsertedThen(1, 7)
  /\ Len(entries) = 2
  /\ mcall.op = "contains"
  /\ mcall.key = 1
  /\ mcall.ret = Some(TRUE)

====
